---- MODULE Spec2Model ----
(***************************************************************************)
(* A model of the scoring engine of generative-engine-optimization:        *)
(* GEOMetrics (src/geo_metrics.py) and the pattern / recommendation part   *)
(* of SEOAnalyzer (src/seo_analyzer.py).                                   *)
(*                                                                         *)
(* Text is a sequence of characters; a character is a one-character string *)
(* except the Turkish letters of the pattern tables, which are written     *)
(* "s_" (s-cedilla), "i_" (dotless i), "c_" (c-cedilla), "o_" (o-umlaut),  *)
(* "g_" (soft g) and their capitals "S_", "C_", "O_", "G_".                *)
(*                                                                         *)
(* A Python float is modelled by an exact fraction [num, den]; the         *)
(* exponential is a fixed-point Taylor sum with Scale units per 1.         *)
(***************************************************************************)
EXTENDS Integers, Sequences, FiniteSets, TLC

(***************************************************************************)
(* Characters and the str methods the code uses                            *)
(***************************************************************************)

\* str.split() and str.strip() with no argument work on whitespace
Whitespace == {" ", "\n"}

\* the characters "\d" matches
Digits == {"0", "1", "2", "3", "4", "5", "6", "7", "8", "9"}

\* the sentence terminals of re.split('[.!?]', text)
Terminals == {".", "!", "?"}

UpperToLower ==
    [c \in {"A", "B", "C", "D", "E", "F", "G", "H", "I", "J", "K", "L", "M",
            "N", "O", "P", "Q", "R", "S", "T", "U", "V", "W", "X", "Y", "Z",
            "S_", "C_", "O_", "G_"} |->
        CASE c = "A" -> "a" [] c = "B" -> "b" [] c = "C" -> "c" [] c = "D" -> "d"
          [] c = "E" -> "e" [] c = "F" -> "f" [] c = "G" -> "g" [] c = "H" -> "h"
          [] c = "I" -> "i" [] c = "J" -> "j" [] c = "K" -> "k" [] c = "L" -> "l"
          [] c = "M" -> "m" [] c = "N" -> "n" [] c = "O" -> "o" [] c = "P" -> "p"
          [] c = "Q" -> "q" [] c = "R" -> "r" [] c = "S" -> "s" [] c = "T" -> "t"
          [] c = "U" -> "u" [] c = "V" -> "v" [] c = "W" -> "w" [] c = "X" -> "x"
          [] c = "Y" -> "y" [] c = "Z" -> "z" [] c = "S_" -> "s_" [] c = "C_" -> "c_"
          [] c = "O_" -> "o_" [] c = "G_" -> "g_"]

\* one character of str.lower()
LowerChar(c) == IF c \in DOMAIN UpperToLower THEN UpperToLower[c] ELSE c

\* str.lower()
str_lower(s) == [i \in 1..Len(s) |-> LowerChar(s[i])]

\* the case folding of re.IGNORECASE: lower case, and dotless i is equivalent
\* to i and I
FoldChar(c) == IF c = "i_" THEN "i" ELSE LowerChar(c)

\* whether a text character equals a pattern character, under the flag
CharEq(a, b, icase) == IF icase THEN FoldChar(a) = FoldChar(b) ELSE a = b

RECURSIVE FirstNonWs(_, _)
FirstNonWs(s, i) ==
    IF i > Len(s) THEN i
    ELSE IF s[i] \in Whitespace THEN FirstNonWs(s, i + 1) ELSE i

RECURSIVE LastNonWs(_, _)
LastNonWs(s, j) ==
    IF j < 1 THEN j
    ELSE IF s[j] \in Whitespace THEN LastNonWs(s, j - 1) ELSE j

\* str.strip()
str_strip(s) ==
    LET a == FirstNonWs(s, 1)
        b == LastNonWs(s, Len(s))
    IN  IF a > b THEN <<>> ELSE SubSeq(s, a, b)

\* the end (exclusive) of the run of non-whitespace characters that starts at i
RECURSIVE WordEnd(_, _)
WordEnd(s, i) ==
    IF i > Len(s) THEN i
    ELSE IF s[i] \in Whitespace THEN i ELSE WordEnd(s, i + 1)

RECURSIVE SplitFrom(_, _)
SplitFrom(s, i) ==
    LET a == FirstNonWs(s, i)
    IN  IF a > Len(s) THEN <<>>
        ELSE LET e == WordEnd(s, a)
             IN  <<SubSeq(s, a, e - 1)>> \o SplitFrom(s, e)

\* str.split(): the maximal runs of non-whitespace characters
str_split(s) == SplitFrom(s, 1)

\* the end (exclusive) of the run of non-terminal characters that starts at i
RECURSIVE SpanEnd(_, _)
SpanEnd(s, i) ==
    IF i > Len(s) THEN i
    ELSE IF s[i] \in Terminals THEN i ELSE SpanEnd(s, i + 1)

\* re.split('[.!?]', text): the spans between terminals, empty ones included
RECURSIVE re_split_terminals(_, _)
re_split_terminals(s, i) ==
    LET e == SpanEnd(s, i)
    IN  IF e > Len(s) THEN <<SubSeq(s, i, Len(s))>>
        ELSE <<SubSeq(s, i, e - 1)>> \o re_split_terminals(s, e + 1)

\* `sub in s` of two strings
str_contains(sub, s) ==
    \E i \in 0..(Len(s) - Len(sub)) :
        \A j \in 1..Len(sub) : s[i + j] = sub[j]

(***************************************************************************)
(* Regular expressions: a pattern is a sequence of elements                *)
(*   lit     a literal string                                              *)
(*   digits  \d+                                                           *)
(*   digitsN \d{n}                                                         *)
(*   alt     (a|b|...), literal alternatives tried in order                *)
(***************************************************************************)

Lit(s) == [k |-> "lit", s |-> s, n |-> 0, alts |-> <<>>]
DigitsPlus == [k |-> "digits", s |-> <<>>, n |-> 0, alts |-> <<>>]
DigitsN(n) == [k |-> "digitsN", s |-> <<>>, n |-> n, alts |-> <<>>]
Alt(alts) == [k |-> "alt", s |-> <<>>, n |-> 0, alts |-> alts]

\* whether literal lit stands in text at index i
LitAt(lit, text, i, icase) ==
    /\ i + Len(lit) - 1 <= Len(text)
    /\ \A j \in 1..Len(lit) : CharEq(text[i + j - 1], lit[j], icase)

\* the end (exclusive) of the run of digits that starts at i
RECURSIVE DigitRunEnd(_, _)
DigitRunEnd(text, i) ==
    IF i > Len(text) THEN i
    ELSE IF text[i] \in Digits THEN DigitRunEnd(text, i + 1) ELSE i

\* The backtracking matcher: the index after the match of pat[k..] that
\* starts at text[i], or 0 when there is none. \d+ is greedy and gives
\* characters back one at a time; alternatives are tried left to right.
RECURSIVE MatchFrom(_, _, _, _, _)
RECURSIVE TryDigits(_, _, _, _, _, _)
RECURSIVE TryAlts(_, _, _, _, _, _)
MatchFrom(pat, k, text, i, icase) ==
    IF k > Len(pat) THEN i
    ELSE LET e == pat[k] IN
        CASE e.k = "lit" ->
                IF LitAt(e.s, text, i, icase)
                THEN MatchFrom(pat, k + 1, text, i + Len(e.s), icase)
                ELSE 0
          [] e.k = "digits" ->
                TryDigits(pat, k, text, i, DigitRunEnd(text, i), icase)
          [] e.k = "digitsN" ->
                IF DigitRunEnd(text, i) >= i + e.n
                THEN MatchFrom(pat, k + 1, text, i + e.n, icase)
                ELSE 0
          [] e.k = "alt" ->
                TryAlts(pat, k, text, i, 1, icase)
TryDigits(pat, k, text, i, j, icase) ==
    IF j <= i THEN 0
    ELSE LET r == MatchFrom(pat, k + 1, text, j, icase)
         IN  IF r # 0 THEN r ELSE TryDigits(pat, k, text, i, j - 1, icase)
TryAlts(pat, k, text, i, a, icase) ==
    IF a > Len(pat[k].alts) THEN 0
    ELSE LET lit == pat[k].alts[a]
             r == IF LitAt(lit, text, i, icase)
                  THEN MatchFrom(pat, k + 1, text, i + Len(lit), icase)
                  ELSE 0
         IN  IF r # 0 THEN r ELSE TryAlts(pat, k, text, i, a + 1, icase)

\* the least element of a non-empty set of integers
SetMin(S) == CHOOSE m \in S : \A n \in S : m <= n

\* [m.group() for m in re.finditer(pattern, text, flags)]: the leftmost
\* non-overlapping matches, each search resuming where the last match ended
RECURSIVE FindFrom(_, _, _, _)
FindFrom(pat, text, i, icase) ==
    LET starts == {j \in i..Len(text) : MatchFrom(pat, 1, text, j, icase) # 0}
    IN  IF starts = {} THEN <<>>
        ELSE LET j == SetMin(starts)
                 e == MatchFrom(pat, 1, text, j, icase)
             IN  <<SubSeq(text, j, e - 1)>> \o FindFrom(pat, text, e, icase)

re_finditer(pat, text, icase) == FindFrom(pat, text, 1, icase)

(***************************************************************************)
(* Floats as exact fractions, and the exponential                          *)
(***************************************************************************)

Rat(n, d) == [num |-> n, den |-> d]
Zero == Rat(0, 1)
One == Rat(1, 1)
\* nan is the fraction 0/0: what 0.0 / 0 of numpy gives. Every comparison
\* with nan is false.
NaN == Rat(0, 0)
IsNaN(a) == a.den = 0
RLe(a, b) == ~IsNaN(a) /\ ~IsNaN(b) /\ a.num * b.den <= b.num * a.den
RLt(a, b) == ~IsNaN(a) /\ ~IsNaN(b) /\ a.num * b.den < b.num * a.den
REq(a, b) == ~IsNaN(a) /\ ~IsNaN(b) /\ a.num * b.den = b.num * a.den
RAdd(a, b) == Rat(a.num * b.den + b.num * a.den, a.den * b.den)
RMul(a, b) == Rat(a.num * b.num, a.den * b.den)
\* Python's min(a, b): b only when b < a
RMin(a, b) == IF RLt(b, a) THEN b ELSE a
RSub(a, b) == Rat(a.num * b.den - b.num * a.den, a.den * b.den)
RAbs(a) == Rat(IF a.num < 0 THEN 0 - a.num ELSE a.num, a.den)
\* a / n for an integer n > 0
RDivInt(a, n) == Rat(a.num, a.den * n)

\* fixed-point units per 1 of the exponential
Scale == 10 ^ 7

\* the number of Taylor terms summed
ExpTerms == 24

\* sum over k >= kk of sign^k * term_k, term_k = |x|^k / k! in fixed point
RECURSIVE ExpSum(_, _, _, _, _)
ExpSum(absn, d, kk, term, neg) ==
    IF kk > ExpTerms \/ term = 0 THEN 0
    ELSE (IF neg /\ kk % 2 = 1 THEN 0 - term ELSE term)
         + ExpSum(absn, d, kk + 1, (term * absn) \div (d * (kk + 1)), neg)

\* math.exp(n / d) in fixed point, d # 0
ExpFixed(n, d) ==
    LET nn == IF d < 0 THEN 0 - n ELSE n
        dd == IF d < 0 THEN 0 - d ELSE d
        absn == IF nn < 0 THEN 0 - nn ELSE nn
    IN  ExpSum(absn, dd, 0, Scale, nn < 0)

(***************************************************************************)
(* GEOMetrics                                                              *)
(***************************************************************************)

\* the default of the constructor's lambda_decay
DefaultLambda == 10

\* self.authority_patterns as the constructor sets it
AuthorityPatterns == <<
    <<Lit(<<"a", "r", "a", "s_", "t", "i_", "r", "m", "a", "l", "a", "r", " ", "g", "o_", "s", "t", "e", "r", "i", "y", "o", "r">>)>>,
    <<Lit(<<"c_", "a", "l", "i_", "s_", "m", "a", "l", "a", "r", " ", "k", "a", "n", "i_", "t", "l", "i_", "y", "o", "r">>)>>,
    <<Lit(<<"u", "z", "m", "a", "n", "l", "a", "r", " ", "b", "e", "l", "i", "r", "t", "i", "y", "o", "r">>)>>,
    <<Lit(<<"b", "i", "l", "i", "m", "s", "e", "l", " ", "v", "e", "r", "i", "l", "e", "r">>)>>,
    <<Lit(<<"i", "s", "t", "a", "t", "i", "s", "t", "i", "k", "l", "e", "r", " ", "g", "o_", "s", "t", "e", "r", "i", "y", "o", "r">>)>> >>

\* self.statistic_patterns as the constructor sets it:
\* \d+%, \d+ (kisi|kullanici|insan), \d+\.\d+, \d+ (milyon|milyar)
StatisticPatterns == <<
    <<DigitsPlus, Lit(<<"%">>)>>,
    <<DigitsPlus, Lit(<<" ">>), Alt(<<<<"k", "i", "s_", "i">>, <<"k", "u", "l", "l", "a", "n", "i_", "c", "i_">>, <<"i", "n", "s", "a", "n">>>>)>>,
    <<DigitsPlus, Lit(<<".">>), DigitsPlus>>,
    <<DigitsPlus, Lit(<<" ">>), Alt(<<<<"m", "i", "l", "y", "o", "n">>, <<"m", "i", "l", "y", "a", "r">>>>)>> >>

\* GEOMetrics(lambda_decay): the instance after __init__
GEOMetrics(lambda_decay) ==
    [lambda_decay |-> lambda_decay,
     authority_patterns |-> AuthorityPatterns,
     statistic_patterns |-> StatisticPatterns]

\* [s.strip() for s in sentences if s.strip()]
RECURSIVE StripNonEmpty(_, _)
StripNonEmpty(spans, i) ==
    IF i > Len(spans) THEN <<>>
    ELSE LET s == str_strip(spans[i])
         IN  (IF s # <<>> THEN <<s>> ELSE <<>>) \o StripNonEmpty(spans, i + 1)

split_into_sentences(text) == StripNonEmpty(re_split_terminals(text, 1), 1)

\* the inner loop without its break: the last containing sentence wins
RECURSIVE ScanResponsesNoBreak(_, _, _)
ScanResponsesNoBreak(source, response_sentences, i) ==
    IF i > Len(response_sentences) THEN 0
    ELSE LET later == ScanResponsesNoBreak(source, response_sentences, i + 1)
         IN  IF later # 0 THEN later
             ELSE IF str_contains(str_lower(source), str_lower(response_sentences[i]))
                  THEN i ELSE 0

\* the inner loop of find_source_positions: the index of the first response
\* sentence from i on that contains source, 0 when the loop ends without a break
RECURSIVE ScanResponses(_, _, _)
ScanResponses(source, response_sentences, i) ==
    IF i > Len(response_sentences) THEN 0
    ELSE IF str_contains(str_lower(source), str_lower(response_sentences[i]))
         THEN i
         ELSE ScanResponses(source, response_sentences, i + 1)

\* the outer loop with len(response.split()) appended in place of source_words
RECURSIVE PositionsFromResponseWords(_, _, _)
PositionsFromResponseWords(source_sentences, response_sentences, k) ==
    IF k > Len(source_sentences) THEN <<>>
    ELSE LET source == source_sentences[k]
             i == ScanResponses(source, response_sentences, 1)
         IN  (IF i # 0 THEN << <<Len(str_split(response_sentences[i])), i>> >>
              ELSE <<>>)
             \o PositionsFromResponseWords(source_sentences, response_sentences, k + 1)

\* the outer loop of find_source_positions, from source sentence k on
RECURSIVE PositionsFrom(_, _, _)
PositionsFrom(source_sentences, response_sentences, k) ==
    IF k > Len(source_sentences) THEN <<>>
    ELSE LET source == source_sentences[k]
             source_words == Len(str_split(source))
             i == ScanResponses(source, response_sentences, 1)
         IN  (IF i # 0 THEN << <<source_words, i>> >> ELSE <<>>)
             \o PositionsFrom(source_sentences, response_sentences, k + 1)

find_source_positions(source_sentences, response_sentences) ==
    PositionsFrom(source_sentences, response_sentences, 1)

\* word_count_metric with // in place of /
word_count_metric_floor_division(source_words, total_words) ==
    IF total_words = 0 THEN Zero
    ELSE Rat(source_words \div total_words, 1)

word_count_metric(source_words, total_words) ==
    IF total_words = 0 THEN Zero
    ELSE Rat(source_words, total_words)

\* the weight as math.exp(position / self.lambda_decay): the minus sign lost
DecayWeightGrowing(self, position) == ExpFixed(position, self.lambda_decay)

\* weight = math.exp(-position / self.lambda_decay), in fixed point
DecayWeight(self, position) == ExpFixed(0 - position, self.lambda_decay)

\* weighted_sum after the loop over sentences, in fixed point
RECURSIVE WeightedSum(_, _, _)
WeightedSum(self, sentences, k) ==
    IF k > Len(sentences) THEN 0
    ELSE sentences[k][1] * DecayWeight(self, sentences[k][2])
         + WeightedSum(self, sentences, k + 1)

\* A call either returns a value or raises: -position / 0 raises
\* ZeroDivisionError at the first record.
Returned(v) == [raised |-> "none", value |-> v]
Raised(e) == [raised |-> e]

\* position_adjusted_metric without its guard: dividing by total_words raises
position_adjusted_metric_unguarded(self, sentences, total_words) ==
    IF total_words = 0 \/ (sentences # <<>> /\ self.lambda_decay = 0)
    THEN Raised("ZeroDivisionError")
    ELSE Returned(Rat(WeightedSum(self, sentences, 1), Scale * total_words))

position_adjusted_metric(self, sentences, total_words) ==
    IF total_words = 0 THEN Returned(Zero)
    ELSE IF sentences # <<>> /\ self.lambda_decay = 0
         THEN Raised("ZeroDivisionError")
         ELSE Returned(Rat(WeightedSum(self, sentences, 1), Scale * total_words))

\* a list without its repetitions
RECURSIVE Distinct(_)
Distinct(seq) ==
    IF seq = <<>> THEN <<>>
    ELSE LET init == Distinct(SubSeq(seq, 1, Len(seq) - 1))
             x == seq[Len(seq)]
         IN  IF \E i \in 1..Len(init) : init[i] = x THEN init ELSE Append(init, x)

\* the loops with `if match.group() not in matches` before the append: a
\* string found before is not counted again
RECURSIVE AllMatchesDistinct(_, _, _, _)
AllMatchesDistinct(patterns, text, k, icase) ==
    IF k > Len(patterns) THEN <<>>
    ELSE Distinct(re_finditer(patterns[k], text, icase)
                  \o AllMatchesDistinct(patterns, text, k + 1, icase))

RECURSIVE AllMatches(_, _, _, _)
AllMatches(patterns, text, k, icase) ==
    IF k > Len(patterns) THEN <<>>
    ELSE re_finditer(patterns[k], text, icase)
         \o AllMatches(patterns, text, k + 1, icase)

\* the patterns are matched against text.lower()
analyze_authority_language(self, text) ==
    LET found_patterns == AllMatches(self.authority_patterns, str_lower(text), 1, FALSE)
    IN  [authority_score |-> Len(found_patterns), found_patterns |-> found_patterns]

\* the patterns are matched against text as it is
analyze_statistics(self, text) ==
    LET found_stats == AllMatches(self.statistic_patterns, text, 1, FALSE)
    IN  [statistics_score |-> Len(found_stats), found_statistics |-> found_stats]

\* min(score / 5, 1.0)
Normalized(score) == RMin(Rat(score, 5), One)

authority_weight == Rat(4, 10)
stats_weight == Rat(6, 10)

\* calculate_subjective_impression with the two weights exchanged
calculate_subjective_impression_swapped(self, text) ==
    LET authority_analysis == analyze_authority_language(self, text)
        stats_analysis == analyze_statistics(self, text)
        authority_normalized == Normalized(authority_analysis.authority_score)
        stats_normalized == Normalized(stats_analysis.statistics_score)
    IN  RAdd(RMul(stats_weight, authority_normalized),
             RMul(authority_weight, stats_normalized))

calculate_subjective_impression(self, text) ==
    LET authority_analysis == analyze_authority_language(self, text)
        stats_analysis == analyze_statistics(self, text)
        authority_normalized == Normalized(authority_analysis.authority_score)
        stats_normalized == Normalized(stats_analysis.statistics_score)
    IN  RAdd(RMul(authority_weight, authority_normalized),
             RMul(stats_weight, stats_normalized))

\* the words of the records of a positions list, summed
RECURSIVE AttributedWords(_, _)
AttributedWords(positions, k) ==
    IF k > Len(positions) THEN 0
    ELSE positions[k][1] + AttributedWords(positions, k + 1)

\* calculate_metrics with source_words = sum(w for w, _ in sentence_positions):
\* the words of the attributed sentences only
calculate_metrics_attributed_words(self, source_text, response_text) ==
    LET source_sentences == split_into_sentences(source_text)
        response_sentences == split_into_sentences(response_text)
        total_words == Len(str_split(response_text))
        sentence_positions == find_source_positions(source_sentences, response_sentences)
        source_words == AttributedWords(sentence_positions, 1)
        wc_metric == word_count_metric(source_words, total_words)
        pos_metric == position_adjusted_metric(self, sentence_positions, total_words)
    IN  IF pos_metric.raised # "none" THEN pos_metric
        ELSE Returned(
            [word_count_metric |-> wc_metric,
             position_adjusted_metric |-> pos_metric.value,
             source_positions |-> sentence_positions,
             authority_analysis |-> analyze_authority_language(self, response_text),
             statistics_analysis |-> analyze_statistics(self, response_text),
             subjective_impression_score |->
                 calculate_subjective_impression(self, response_text)])

calculate_metrics(self, source_text, response_text) ==
    LET source_sentences == split_into_sentences(source_text)
        response_sentences == split_into_sentences(response_text)
        source_words == Len(str_split(source_text))
        total_words == Len(str_split(response_text))
        sentence_positions == find_source_positions(source_sentences, response_sentences)
        wc_metric == word_count_metric(source_words, total_words)
        pos_metric == position_adjusted_metric(self, sentence_positions, total_words)
    IN  IF pos_metric.raised # "none" THEN pos_metric
        ELSE Returned(
            [word_count_metric |-> wc_metric,
             position_adjusted_metric |-> pos_metric.value,
             source_positions |-> sentence_positions,
             authority_analysis |-> analyze_authority_language(self, response_text),
             statistics_analysis |-> analyze_statistics(self, response_text),
             subjective_impression_score |->
                 calculate_subjective_impression(self, response_text)])

(***************************************************************************)
(* SEOAnalyzer: the GEO pattern analysis and the recommendations           *)
(***************************************************************************)

\* self.geo_patterns as the constructor sets it
GeoPatterns ==
    [authority |-> <<
        <<Lit(<<"a", "r", "a", "s_", "t", "i_", "r", "m", "a", "l", "a", "r", " ", "g", "o_", "s", "t", "e", "r", "i", "y", "o", "r">>)>>,
        <<Lit(<<"u", "z", "m", "a", "n", "l", "a", "r", " ", "b", "e", "l", "i", "r", "t", "i", "y", "o", "r">>)>>,
        <<Lit(<<"b", "i", "l", "i", "m", "s", "e", "l", " ", "v", "e", "r", "i", "l", "e", "r">>)>>,
        <<Lit(<<"k", "a", "n", "i_", "t", "l", "a", "n", "m", "i_", "s_">>)>>,
        <<Lit(<<"c_", "a", "l", "i_", "s_", "m", "a", "l", "a", "r", " ", "g", "o_", "s", "t", "e", "r", "i", "y", "o", "r">>)>> >>,
     statistics |-> <<
        <<DigitsPlus, Lit(<<"%">>)>>,
        <<DigitsPlus, Lit(<<" ">> \o <<"k", "i", "s_", "i">>)>>,
        <<DigitsPlus, Lit(<<".">>), DigitsPlus>>,
        <<DigitsPlus, Lit(<<" ">>), Alt(<<<<"m", "i", "l", "y", "o", "n">>, <<"m", "i", "l", "y", "a", "r">>>>)>> >>,
     citations |-> <<
        <<Lit(<<"k", "a", "y", "n", "a", "k", ":">>)>>,
        <<Lit(<<"r", "e", "f", "e", "r", "a", "n", "s", ":">>)>>,
        <<Lit(<<"a", "l", "i_", "n", "t", "i_", ":">>)>>,
        <<Lit(<<"[">>), DigitsPlus, Lit(<<"]">>)>>,
        <<Lit(<<"(">>), DigitsN(4), Lit(<<")">>)>> >>,
     expert_language |-> <<
        <<Lit(<<"a", "n", "a", "l", "i", "z">>)>>,
        <<Lit(<<"m", "e", "t", "o", "d", "o", "l", "o", "j", "i">>)>>,
        <<Lit(<<"h", "i", "p", "o", "t", "e", "z">>)>>,
        <<Lit(<<"s", "o", "n", "u", "c_", " ", "o", "l", "a", "r", "a", "k">>)>>,
        <<Lit(<<"b", "u", " ", "b", "a", "g_", "l", "a", "m", "d", "a">>)>> >>]

\* SEOAnalyzer(): the instance after __init__ (the part the analysis reads)
SEOAnalyzer == [geo_patterns |-> GeoPatterns]

\* one category without the saturation: score = count / 5
AnalyzeCategoryUncapped(patterns, text) ==
    LET matches == AllMatches(patterns, text, 1, TRUE)
        count == Len(matches)
    IN  [count |-> count, matches |-> matches, score |-> Rat(count, 5)]

\* one category of analyze_geo_patterns: every pattern with re.IGNORECASE
AnalyzeCategory(patterns, text) ==
    LET matches == AllMatches(patterns, text, 1, TRUE)
        count == Len(matches)
    IN  [count |-> count, matches |-> matches,
         score |-> RMin(Rat(count, 5), One)]

analyze_geo_patterns(self, text) ==
    [pattern_type \in DOMAIN self.geo_patterns |->
        AnalyzeCategory(self.geo_patterns[pattern_type], text)]

\* the end (exclusive) of the run of terminals that starts at i
RECURSIVE TerminalRunEnd(_, _)
TerminalRunEnd(s, i) ==
    IF i > Len(s) THEN i
    ELSE IF s[i] \in Terminals THEN TerminalRunEnd(s, i + 1) ELSE i

\* re.split(r'[.!?]+', text): the spans between runs of terminals
RECURSIVE re_split_terminal_runs(_, _)
re_split_terminal_runs(s, i) ==
    LET e == SpanEnd(s, i)
    IN  IF e > Len(s) THEN <<SubSeq(s, i, Len(s))>>
        ELSE <<SubSeq(s, i, e - 1)>>
                 \o re_split_terminal_runs(s, TerminalRunEnd(s, e))

\* [len(s.split()) for s in sentences if s.strip()]
RECURSIVE SentenceLengths(_, _)
SentenceLengths(sentences, i) ==
    IF i > Len(sentences) THEN <<>>
    ELSE (IF str_strip(sentences[i]) # <<>>
          THEN <<Len(str_split(sentences[i]))>> ELSE <<>>)
         \o SentenceLengths(sentences, i + 1)

RECURSIVE SumInts(_, _)
SumInts(values, i) ==
    IF i > Len(values) THEN 0 ELSE values[i] + SumInts(values, i + 1)

\* np.mean of a list of ints: the sum over the count, nan for the empty list
np_mean_ints(values) == Rat(SumInts(values, 1), Len(values))

RECURSIVE SumFloats(_, _)
SumFloats(values, i) ==
    IF i > Len(values) THEN Zero ELSE RAdd(values[i], SumFloats(values, i + 1))

\* np.mean of a non-empty list of floats
np_mean(values) == RDivInt(SumFloats(values, 1), Len(values))

\* the end (exclusive) of the run of whitespace that starts at i
RECURSIVE WhitespaceRunEnd(_, _)
WhitespaceRunEnd(s, i) ==
    IF i > Len(s) THEN i
    ELSE IF s[i] \in Whitespace THEN WhitespaceRunEnd(s, i + 1) ELSE i

\* the matches of r'\n\s*\n' from i on: a newline, then the whitespace up to
\* the last newline of the run
RECURSIVE ParagraphBreaks(_, _)
ParagraphBreaks(s, i) ==
    IF i > Len(s) THEN 0
    ELSE IF s[i] # "\n" THEN ParagraphBreaks(s, i + 1)
    ELSE LET newlines == {j \in (i + 1)..(WhitespaceRunEnd(s, i + 1) - 1) :
                              s[j] = "\n"}
         IN  IF newlines = {} THEN ParagraphBreaks(s, i + 1)
             ELSE 1 + ParagraphBreaks(
                          s, 1 + CHOOSE j \in newlines : \A k \in newlines : k <= j)

\* 'length_score': min(words / 1000, 1.0)
length_score(words) == RMin(Rat(words, 1000), One)

calculate_content_quality_score(self, text) ==
    LET words == Len(str_split(text))
        lengths == SentenceLengths(re_split_terminal_runs(text, 1), 1)
        avg_sentence_length == np_mean_ints(lengths)
        paragraphs == 1 + ParagraphBreaks(text, 1)
        length == length_score(words)
        readability ==
            RSub(One, RMin(RDivInt(RAbs(RSub(avg_sentence_length, Rat(15, 1))), 15),
                           One))
        structure == RMin(Rat(paragraphs, 10), One)
    IN  [length_score |-> length,
         readability_score |-> readability,
         structure_score |-> structure,
         overall_score |-> np_mean(<<length, readability, structure>>)]

\* The items of generate_seo_recommendations. The messages are written
\* without their Turkish diacritics.
TitleItem ==
    [type |-> "meta_tags", element |-> "title", severity |-> "high",
     message |-> "Title etiketi 30-60 karakter arasinda olmalidir."]
DescriptionItem ==
    [type |-> "meta_tags", element |-> "description", severity |-> "high",
     message |-> "Meta description 120-160 karakter arasinda olmalidir."]
H1Item ==
    [type |-> "headings", element |-> "h1", severity |-> "high",
     message |-> "Sayfada tam olarak bir adet H1 etiketi olmalidir."]
LengthItem ==
    [type |-> "content", element |-> "length", severity |-> "medium",
     message |-> "Icerik en az 500 kelime olmalidir."]
AuthorityItem ==
    [type |-> "geo", element |-> "authority", severity |-> "medium",
     message |-> "Otorite belirten ifadeler eklenmelidir."]
StatisticsItem ==
    [type |-> "geo", element |-> "statistics", severity |-> "medium",
     message |-> "Istatistiksel veriler eklenmelidir."]

\* recommendations.append(item) when the rule's condition holds
AppendIf(recommendations, cond, item) ==
    IF cond THEN Append(recommendations, item) ELSE recommendations

\* the title condition as 'title' in meta_tags and len(meta_tags['title']) < 30
TitleRulePresentOnly(meta_tags) ==
    "title" \in DOMAIN meta_tags /\ Len(meta_tags["title"]) < 30

\* the conditions of the six if statements
TitleRule(meta_tags) ==
    "title" \notin DOMAIN meta_tags \/ Len(meta_tags["title"]) < 30
DescriptionRule(meta_tags) ==
    "description" \notin DOMAIN meta_tags \/ Len(meta_tags["description"]) < 120
H1Rule(headings) ==
    "h1" \notin DOMAIN headings \/ Len(headings["h1"]) # 1

\* the length condition with <= in place of <
LengthRuleInclusive(quality_scores) ==
    RLe(quality_scores["length_score"], Rat(5, 10))

LengthRule(quality_scores) ==
    RLt(quality_scores["length_score"], Rat(5, 10))
AuthorityRule(geo_patterns) ==
    RLt(geo_patterns["authority"]["score"], Rat(3, 10))
StatisticsRule(geo_patterns) ==
    RLt(geo_patterns["statistics"]["score"], Rat(3, 10))

\* generate_seo_recommendations with the description rule as the elif of the
\* title rule
generate_seo_recommendations_elif(analysis_results) ==
    LET meta_tags == analysis_results["meta_tags"]
        headings == analysis_results["heading_structure"]
        quality_scores == analysis_results["content_quality"]
        geo_patterns == analysis_results["geo_patterns"]
        r1 == AppendIf(<<>>, TitleRule(meta_tags), TitleItem)
        r2 == AppendIf(r1, ~TitleRule(meta_tags) /\ DescriptionRule(meta_tags),
                       DescriptionItem)
        r3 == AppendIf(r2, H1Rule(headings), H1Item)
        r4 == AppendIf(r3, LengthRule(quality_scores), LengthItem)
        r5 == AppendIf(r4, AuthorityRule(geo_patterns), AuthorityItem)
        r6 == AppendIf(r5, StatisticsRule(geo_patterns), StatisticsItem)
    IN  r6

\* generate_seo_recommendations with the statistics rule indented into the
\* body of the authority rule
generate_seo_recommendations_nested(analysis_results) ==
    LET meta_tags == analysis_results["meta_tags"]
        headings == analysis_results["heading_structure"]
        quality_scores == analysis_results["content_quality"]
        geo_patterns == analysis_results["geo_patterns"]
        r1 == AppendIf(<<>>, TitleRule(meta_tags), TitleItem)
        r2 == AppendIf(r1, DescriptionRule(meta_tags), DescriptionItem)
        r3 == AppendIf(r2, H1Rule(headings), H1Item)
        r4 == AppendIf(r3, LengthRule(quality_scores), LengthItem)
        r5 == AppendIf(r4, AuthorityRule(geo_patterns), AuthorityItem)
        r6 == AppendIf(r5, AuthorityRule(geo_patterns) /\ StatisticsRule(geo_patterns),
                       StatisticsItem)
    IN  r6

generate_seo_recommendations(analysis_results) ==
    LET meta_tags == analysis_results["meta_tags"]
        headings == analysis_results["heading_structure"]
        quality_scores == analysis_results["content_quality"]
        geo_patterns == analysis_results["geo_patterns"]
        r1 == AppendIf(<<>>, TitleRule(meta_tags), TitleItem)
        r2 == AppendIf(r1, DescriptionRule(meta_tags), DescriptionItem)
        r3 == AppendIf(r2, H1Rule(headings), H1Item)
        r4 == AppendIf(r3, LengthRule(quality_scores), LengthItem)
        r5 == AppendIf(r4, AuthorityRule(geo_patterns), AuthorityItem)
        r6 == AppendIf(r5, StatisticsRule(geo_patterns), StatisticsItem)
    IN  r6

(***************************************************************************)
(* The inputs the model draws                                              *)
(***************************************************************************)

\* the most lexicon pieces of a source text and a response text together
MaxPieces == 3

\* the largest word count handed to word_count_metric directly
MaxWords == 10

\* the most records handed to position_adjusted_metric directly
MaxRecords == 2

\* the values of lambda_decay an engine is constructed with
Lambdas == {DefaultLambda, 0, -10}

\* "a b. ", "c. ", "A B "
SrcAb == <<"a", " ", "b", ".", " ">>
SrcC == <<"c", ".", " ">>
SrcUpperAb == <<"A", " ", "B", " ">>
SourceLexicon == {SrcAb, SrcC, SrcUpperAb}

\* "a b. ", "x A B c! ", "bilimsel veriler, Uzmanlar Belirtiyor 45%. ",
\* "BILIMSEL VERILER 2.5 MILYON? ", "12.5% 3 milyon ", "kaynak: [1] analiz. "
RespAb == <<"a", " ", "b", ".", " ">>
RespUpperAbc == <<"x", " ", "A", " ", "B", " ", "c", "!", " ">>
RespAuthority == <<"b", "i", "l", "i", "m", "s", "e", "l", " ", "v", "e", "r", "i", "l", "e", "r", ",", " ", "U", "z", "m", "a", "n", "l", "a", "r", " ", "B", "e", "l", "i", "r", "t", "i", "y", "o", "r", " ", "4", "5", "%", ".", " ">>
RespUpperAuthority == <<"B", "I", "L", "I", "M", "S", "E", "L", " ", "V", "E", "R", "I", "L", "E", "R", " ", "2", ".", "5", " ", "M", "I", "L", "Y", "O", "N", "?", " ">>
RespStatistics == <<"1", "2", ".", "5", "%", " ", "3", " ", "m", "i", "l", "y", "o", "n", " ">>
RespCitation == <<"k", "a", "y", "n", "a", "k", ":", " ", "[", "1", "]", " ", "a", "n", "a", "l", "i", "z", ".", " ">>
ResponseLexicon == {RespAb, RespUpperAbc, RespAuthority, RespUpperAuthority,
                    RespStatistics, RespCitation}

\* the texts made of at most n pieces of a lexicon
RECURSIVE ConcatUpTo(_, _)
ConcatUpTo(lexicon, n) ==
    IF n = 0 THEN {<<>>}
    ELSE LET shorter == ConcatUpTo(lexicon, n - 1)
         IN  shorter \cup {s \o p : s \in shorter, p \in lexicon}

\* the (source text, response text) pairs of at most MaxPieces pieces; with
\* no source text, where nothing is attributed, the response has one less
TextPairs ==
    UNION {(ConcatUpTo(SourceLexicon, k) \ {<<>>})
               \X ConcatUpTo(ResponseLexicon, MaxPieces - k) : k \in 1..MaxPieces}
    \cup ({<<>>} \X ConcatUpTo(ResponseLexicon, MaxPieces - 1))

\* the texts handed to a pattern analysis alone
AnalysisTexts == ConcatUpTo(ResponseLexicon, MaxPieces - 1)

\* the most calls an engine is followed through after its first
MaxServed == 1

\* what an engine that has served a call before is handed: two pieces less
ReuseTextPairs ==
    UNION {ConcatUpTo(SourceLexicon, k) \X ConcatUpTo(ResponseLexicon, MaxPieces - 2 - k) :
           k \in 0..(MaxPieces - 2)}
ReuseAnalysisTexts == ConcatUpTo(ResponseLexicon, MaxPieces - 2)

\* the worker threads
NumThreads == 2

\* what the workers are handed: calls that differ in every intermediate
ConcurrentPairs ==
    {<<SrcAb \o SrcC, RespAb>>,
     <<SrcC, RespUpperAbc \o RespStatistics>>}
ConcurrentTexts == {RespCitation}

\* the sequences of at most n elements of S
RECURSIVE SeqsUpTo(_, _)
SeqsUpTo(S, n) ==
    IF n = 0 THEN {<<>>}
    ELSE LET shorter == SeqsUpTo(S, n - 1)
         IN  shorter \cup {Append(s, e) : s \in shorter, e \in S}

\* (word_count, position) records and the lists of them
Records == {0, 1, MaxWords} \X {1, 2, 3}
RecordLists == SeqsUpTo(Records, MaxRecords)
Totals == {0, 1, 2 * MaxWords}

\* "a b. ", "!? ", " \n\n ", "c d e"
QualityLexicon ==
    {SrcAb, <<"!", "?", " ">>, <<" ", "\n", "\n", " ">>, <<"c", " ", "d", " ", "e">>}

\* the texts handed to the quality scorer
QualityTexts == ConcatUpTo(QualityLexicon, MaxPieces - 1)

\* a string of n characters
StrOfLen(n) == [i \in 1..n |-> "x"]

\* an optional value: a key of a dict that may be missing
Missing == [present |-> FALSE]
Present(v) == [present |-> TRUE, value |-> v]

\* the dict with the given keys that are present (<<>> is the empty dict)
meta_tags_of(title, description) ==
    (IF title.present THEN [title |-> title.value] ELSE <<>>)
    @@ (IF description.present THEN [description |-> description.value] ELSE <<>>)
heading_structure_of(h1) == IF h1.present THEN [h1 |-> h1.value] ELSE <<>>

\* the analysis records handed to generate_seo_recommendations: the values
\* analyze_url collects, around the limits of each rule
TitleChoices == {Missing} \cup {Present(StrOfLen(n)) : n \in {29, 30}}
DescriptionChoices == {Missing} \cup {Present(StrOfLen(n)) : n \in {119, 120}}
H1Choices == {Missing} \cup {Present([i \in 1..n |-> <<"h">>]) : n \in 0..2}
WordsChoices == {0, 499, 500, 1000}
GeoPatternChoices ==
    {analyze_geo_patterns(SEOAnalyzer, text) : text \in ConcatUpTo(ResponseLexicon, 1)}

\* what a content-analysis collaborator may add to the record: nothing, or a
\* readability composite (0-100) and a topic coherence on either side of 50
\* and 0.5
SuppliedChoices ==
    {<<>>}
    \cup {[content_analysis |-> [readability |-> 49, topic_coherence |-> Rat(4, 10)]],
          [content_analysis |-> [readability |-> 50, topic_coherence |-> Rat(5, 10)]]}

AnalysisResults(title, description, h1, words, geo_patterns) ==
    [meta_tags |-> meta_tags_of(title, description),
     heading_structure |-> heading_structure_of(h1),
     content_quality |-> [length_score |-> length_score(words)],
     geo_patterns |-> geo_patterns]

(***************************************************************************)
(* The engine: one GEOMetrics and one SEOAnalyzer instance, called one     *)
(* operation at a time                                                     *)
(***************************************************************************)

VARIABLES
    geo,        \* the GEOMetrics instance
    seo,        \* the SEOAnalyzer instance
    pc,         \* "idle", or "done" when call has returned result
    call,       \* the operation called last and its arguments
    result,     \* what it returned
    served,     \* history: the calls the instances have served, up to MaxServed
    threads     \* the worker threads that share the instances

vars == <<geo, seo, pc, call, result, served, threads>>

NoCall == [op |-> "none"]
NoResult == [raised |-> "nothing"]

\* a worker that is in no call
IdleThread ==
    [pc |-> "idle", frame |-> NoCall, result |-> NoResult, overlapped |-> FALSE]

Init ==
    /\ geo \in {GEOMetrics(l) : l \in Lambdas}
    /\ seo = SEOAnalyzer
    /\ pc = "idle"
    /\ call = NoCall
    /\ result = NoResult
    /\ served = 0
    /\ threads = [t \in 1..NumThreads |-> IdleThread]

WordCountMetricCall ==
    /\ pc = "idle"
    /\ \E source_words \in 0..MaxWords, total_words \in 0..MaxWords :
        /\ call' = [op |-> "word_count_metric",
                    source_words |-> source_words, total_words |-> total_words]
        /\ result' = Returned(word_count_metric(source_words, total_words))
    /\ pc' = "done"
    /\ UNCHANGED <<geo, seo, served, threads>>

PositionAdjustedMetricCall ==
    /\ pc = "idle"
    /\ \E sentences \in RecordLists, total_words \in Totals :
        /\ call' = [op |-> "position_adjusted_metric",
                    sentences |-> sentences, total_words |-> total_words]
        /\ result' = position_adjusted_metric(geo, sentences, total_words)
    /\ pc' = "done"
    /\ UNCHANGED <<geo, seo, served, threads>>

\* calculate_metrics with self.authority_patterns.append(match.group()) in
\* place of found_patterns.append(match.group()): what is found is matched
\* again by every later call
CalculateMetricsCallLearning ==
    /\ pc = "idle"
    /\ \E pair \in (IF served = 0 THEN TextPairs ELSE ReuseTextPairs) :
        LET found == analyze_authority_language(geo, pair[2]).found_patterns IN
        /\ call' = [op |-> "calculate_metrics",
                    source_text |-> pair[1], response_text |-> pair[2]]
        /\ result' = calculate_metrics(geo, pair[1], pair[2])
        /\ geo' = [geo EXCEPT !.authority_patterns =
                       @ \o [i \in 1..Len(found) |-> <<Lit(found[i])>>]]
    /\ pc' = "done"
    /\ UNCHANGED <<seo, served, threads>>

CalculateMetricsCall ==
    /\ pc = "idle"
    /\ \E pair \in (IF served = 0 THEN TextPairs ELSE ReuseTextPairs) :
        /\ call' = [op |-> "calculate_metrics",
                    source_text |-> pair[1], response_text |-> pair[2]]
        /\ result' = calculate_metrics(geo, pair[1], pair[2])
    /\ pc' = "done"
    /\ UNCHANGED <<geo, seo, served, threads>>

AnalyzeGeoPatternsCall ==
    /\ pc = "idle"
    /\ \E text \in (IF served = 0 THEN AnalysisTexts ELSE ReuseAnalysisTexts) :
        /\ call' = [op |-> "analyze_geo_patterns", text |-> text]
        /\ result' = Returned(analyze_geo_patterns(seo, text))
    /\ pc' = "done"
    /\ UNCHANGED <<geo, seo, served, threads>>

CalculateContentQualityScoreCall ==
    /\ pc = "idle"
    /\ \E text \in QualityTexts :
        /\ call' = [op |-> "calculate_content_quality_score", text |-> text]
        /\ result' = Returned(calculate_content_quality_score(seo, text))
    /\ pc' = "done"
    /\ UNCHANGED <<geo, seo, served, threads>>

GenerateSeoRecommendationsCall ==
    /\ pc = "idle"
    /\ \E title \in TitleChoices, description \in DescriptionChoices,
          h1 \in H1Choices, words \in WordsChoices,
          geo_patterns \in GeoPatternChoices, supplied \in SuppliedChoices :
        LET analysis_results ==
                AnalysisResults(title, description, h1, words, geo_patterns)
                    @@ supplied
        IN  /\ call' = [op |-> "generate_seo_recommendations",
                        analysis_results |-> analysis_results]
            /\ result' = Returned(generate_seo_recommendations(analysis_results))
    /\ pc' = "done"
    /\ UNCHANGED <<geo, seo, served, threads>>

\* the caller takes the result; the instances live on
Return ==
    /\ pc = "done"
    /\ pc' = "idle"
    /\ call' = NoCall
    /\ result' = NoResult
    /\ served' = IF served < MaxServed THEN served + 1 ELSE served
    /\ UNCHANGED <<geo, seo, threads>>

Next ==
    \/ WordCountMetricCall
    \/ PositionAdjustedMetricCall
    \/ CalculateMetricsCall
    \/ AnalyzeGeoPatternsCall
    \/ CalculateContentQualityScoreCall
    \/ GenerateSeoRecommendationsCall
    \/ Return

Spec == Init /\ [][Next]_vars

(***************************************************************************)
(* The same instances shared by worker threads. A call is a frame of       *)
(* arguments and locals that its thread carries through the statements of   *)
(* the method; the threads interleave between statements.                   *)
(***************************************************************************)

InProgress(t) == threads[t].pc \notin {"idle", "done"}

\* thread t moves to pc with the frame and result given; overlapped records
\* that another thread was inside a call while this one ran
Step(t, next_pc, frame, res) ==
    /\ threads' = [threads EXCEPT ![t] =
            [pc |-> next_pc, frame |-> frame, result |-> res,
             overlapped |-> (threads[t].pc # "idle" /\ threads[t].overlapped)
                            \/ \E u \in DOMAIN threads : u # t /\ InProgress(u)]]
    /\ UNCHANGED <<geo, seo, pc, call, result, served>>

\* calculate_metrics is entered
CalculateMetricsEnter(t) ==
    /\ threads[t].pc = "idle"
    /\ \E pair \in ConcurrentPairs :
        Step(t, "sentences",
             [op |-> "calculate_metrics",
              source_text |-> pair[1], response_text |-> pair[2]],
             NoResult)

\* source_sentences, response_sentences, source_words, total_words
SentencesStep(t) ==
    /\ threads[t].pc = "sentences"
    /\ LET f == threads[t].frame
       IN  Step(t, "positions",
                f @@ [source_sentences |-> split_into_sentences(f.source_text),
                      response_sentences |-> split_into_sentences(f.response_text),
                      source_words |-> Len(str_split(f.source_text)),
                      total_words |-> Len(str_split(f.response_text))],
                NoResult)

\* sentence_positions kept in an attribute of the instance, which every call
\* in progress reads, in place of a local
PositionsStepShared(t) ==
    /\ threads[t].pc = "positions"
    /\ LET f == threads[t].frame
           sentence_positions ==
               find_source_positions(f.source_sentences, f.response_sentences)
           bound(u) == "sentence_positions" \in DOMAIN threads[u].frame
       IN  /\ threads' = [u \in DOMAIN threads |->
                IF u = t
                THEN [threads[t] EXCEPT
                        !.pc = "metrics",
                        !.frame = f @@ [sentence_positions |-> sentence_positions]]
                ELSE IF bound(u)
                THEN [threads[u] EXCEPT
                        !.frame.sentence_positions = sentence_positions]
                ELSE threads[u]]
           /\ UNCHANGED <<geo, seo, pc, call, result, served>>

\* sentence_positions = self.find_source_positions(...)
PositionsStep(t) ==
    /\ threads[t].pc = "positions"
    /\ LET f == threads[t].frame
       IN  Step(t, "metrics",
                f @@ [sentence_positions |->
                        find_source_positions(f.source_sentences,
                                              f.response_sentences)],
                NoResult)

\* wc_metric and pos_metric; a raise ends the call
MetricsStep(t) ==
    /\ threads[t].pc = "metrics"
    /\ LET f == threads[t].frame
           pos_metric ==
               position_adjusted_metric(geo, f.sentence_positions, f.total_words)
       IN  IF pos_metric.raised # "none"
           THEN Step(t, "done", f, pos_metric)
           ELSE Step(t, "analyses",
                     f @@ [wc_metric |->
                              word_count_metric(f.source_words, f.total_words),
                           pos_metric |-> pos_metric.value],
                     NoResult)

\* authority_analysis, stats_analysis, subjective_score
AnalysesStep(t) ==
    /\ threads[t].pc = "analyses"
    /\ LET f == threads[t].frame
       IN  Step(t, "return",
                f @@ [authority_analysis |->
                          analyze_authority_language(geo, f.response_text),
                      stats_analysis |-> analyze_statistics(geo, f.response_text),
                      subjective_score |->
                          calculate_subjective_impression(geo, f.response_text)],
                NoResult)

\* the dict is built from the locals and returned
CalculateMetricsReturn(t) ==
    /\ threads[t].pc = "return"
    /\ threads[t].frame.op = "calculate_metrics"
    /\ LET f == threads[t].frame
       IN  Step(t, "done", f,
                Returned([word_count_metric |-> f.wc_metric,
                          position_adjusted_metric |-> f.pos_metric,
                          source_positions |-> f.sentence_positions,
                          authority_analysis |-> f.authority_analysis,
                          statistics_analysis |-> f.stats_analysis,
                          subjective_impression_score |-> f.subjective_score]))

\* the keys of self.geo_patterns in the order the loop visits them
PatternTypes == <<"authority", "statistics", "citations", "expert_language">>

\* analyze_geo_patterns is entered: results = {}
AnalyzeGeoPatternsEnter(t) ==
    /\ threads[t].pc = "idle"
    /\ \E text \in ConcurrentTexts :
        Step(t, "patterns",
             [op |-> "analyze_geo_patterns", text |-> text,
              visited |-> 0, results |-> [p \in {} |-> 0]],
             NoResult)

\* one turn of the loop over self.geo_patterns.items()
PatternTypeStep(t) ==
    /\ threads[t].pc = "patterns"
    /\ LET f == threads[t].frame
           pattern_type == PatternTypes[f.visited + 1]
           entry == AnalyzeCategory(seo.geo_patterns[pattern_type], f.text)
       IN  Step(t, IF f.visited + 1 = Len(PatternTypes) THEN "return" ELSE "patterns",
                [f EXCEPT !.visited = @ + 1,
                          !.results = (pattern_type :> entry) @@ @],
                NoResult)

\* return results
AnalyzeGeoPatternsReturn(t) ==
    /\ threads[t].pc = "return"
    /\ threads[t].frame.op = "analyze_geo_patterns"
    /\ Step(t, "done", threads[t].frame, Returned(threads[t].frame.results))

\* the caller takes the result and the frame is gone
ThreadReturn(t) ==
    /\ threads[t].pc = "done"
    /\ threads' = [threads EXCEPT ![t] = IdleThread]
    /\ UNCHANGED <<geo, seo, pc, call, result, served>>

NextConc ==
    \E t \in DOMAIN threads :
        \/ CalculateMetricsEnter(t)
        \/ SentencesStep(t)
        \/ PositionsStep(t)
        \/ MetricsStep(t)
        \/ AnalysesStep(t)
        \/ CalculateMetricsReturn(t)
        \/ AnalyzeGeoPatternsEnter(t)
        \/ PatternTypeStep(t)
        \/ AnalyzeGeoPatternsReturn(t)
        \/ ThreadReturn(t)

SpecConc == Init /\ [][NextConc]_vars

(***************************************************************************)
(* The claims                                                              *)
(***************************************************************************)

Done(op) == pc = "done" /\ call.op = op
InUnit(r) == RLe(Zero, r) /\ RLe(r, One)

\* C1: word_count_metric(source_words, total_words) returns exactly
\* source_words / total_words when total_words > 0 (1 exactly when the two
\* are equal) and 0 when total_words = 0, for every non-negative source_words.
C1_WordCountRatio ==
    Done("word_count_metric") =>
        /\ result.raised = "none"
        /\ call.total_words > 0 =>
            /\ result.value.num * call.total_words
                   = call.source_words * result.value.den
            /\ REq(result.value, One) <=> call.source_words = call.total_words
        /\ call.total_words = 0 => REq(result.value, Zero)

\* word_count_metric(5, 10) has returned 0.5
C1_Witness ==
    /\ Done("word_count_metric")
    /\ call.source_words = 5 /\ call.total_words = 10
    /\ result.value.num * 2 = result.value.den

\* C2: with zero total words both metrics are 0 and nothing is raised:
\* position_adjusted_metric(records, 0) is 0 for every records list, and
\* calculate_metrics with a response of no words has word_count_metric = 0
\* and position_adjusted_metric = 0.
C2_ZeroTotalWords ==
    /\ Done("position_adjusted_metric") /\ call.total_words = 0 =>
        result.raised = "none" /\ REq(result.value, Zero)
    /\ Done("calculate_metrics") /\ str_split(call.response_text) = <<>> =>
        /\ result.raised = "none"
        /\ REq(result.value.word_count_metric, Zero)
        /\ REq(result.value.position_adjusted_metric, Zero)

\* position_adjusted_metric has returned for a non-empty records list and
\* zero total words, on an engine whose lambda_decay is 0
C2_Witness ==
    /\ Done("position_adjusted_metric")
    /\ call.total_words = 0 /\ call.sentences # <<>>
    /\ geo.lambda_decay = 0
    /\ result.raised = "none"

\* C3 (as claimed): on an engine with a positive lambda_decay, the
\* word_count_metric and the position_adjusted_metric of every
\* calculate_metrics record lie in [0, 1].
C3_MetricsInUnitInterval ==
    Done("calculate_metrics") /\ geo.lambda_decay > 0 =>
        /\ result.raised = "none"
        /\ InUnit(result.value.word_count_metric)
        /\ InUnit(result.value.position_adjusted_metric)

\* the response sentences (by index) that contain a source sentence,
\* both lower-cased
Containing(source, response_sentences) ==
    {i \in 1..Len(response_sentences) :
        str_contains(str_lower(source), str_lower(response_sentences[i]))}

\* the source sentences some response sentence contains, in source order
Attributed(source_sentences, response_sentences) ==
    SelectSeq(source_sentences,
              LAMBDA source : Containing(source, response_sentences) # {})

\* C4: attribution is greedy first-match: the record of a source sentence
\* holds the smallest 1-based index of a response sentence whose lower-cased
\* text contains the lower-cased source sentence; a later sentence that
\* contains it too is never chosen, and 1 <= position <= number of response
\* sentences.
C4_FirstMatch ==
    Done("calculate_metrics") /\ result.raised = "none" =>
        LET response_sentences == split_into_sentences(call.response_text)
            attributed == Attributed(split_into_sentences(call.source_text),
                                     response_sentences)
            positions == result.value.source_positions
        IN  /\ Len(positions) = Len(attributed)
            /\ \A k \in 1..Len(positions) :
                /\ positions[k][2] \in 1..Len(response_sentences)
                /\ positions[k][2] = SetMin(Containing(attributed[k], response_sentences))

\* a source sentence that two response sentences contain has been attributed
\* to the first of them
C4_Witness ==
    /\ Done("calculate_metrics") /\ result.raised = "none"
    /\ LET response_sentences == split_into_sentences(call.response_text)
           attributed == Attributed(split_into_sentences(call.source_text),
                                    response_sentences)
       IN  \E k \in 1..Len(attributed) :
               /\ Cardinality(Containing(attributed[k], response_sentences)) >= 2
               /\ result.value.source_positions[k][2] = 1

\* C5: a pattern category's normalized score is min(count / 5, 1.0): 0 with
\* no match, count / 5 strictly between 0 and 1 for 1..4 matches, exactly 1
\* from 5 matches on, never outside [0, 1].
C5_ScoreSaturates ==
    Done("analyze_geo_patterns") =>
        \A pattern_type \in DOMAIN result.value :
            LET r == result.value[pattern_type] IN
            /\ InUnit(r.score)
            /\ r.count = 0 => REq(r.score, Zero)
            /\ r.count >= 5 => REq(r.score, One)
            /\ r.count \in 1..4 =>
                /\ r.score.num * 5 = r.count * r.score.den
                /\ RLt(Zero, r.score) /\ RLt(r.score, One)

\* one analysis holds a category with 5 matches and score 1, a category with
\* 1..4 matches and a category with none
C5_Witness ==
    /\ Done("analyze_geo_patterns")
    /\ \E a, b, c \in DOMAIN result.value :
        /\ result.value[a].count = 5 /\ REq(result.value[a].score, One)
        /\ result.value[b].count \in 1..4
        /\ result.value[c].count = 0

\* min(count / 5, 1) written out by cases
SaturatedFifth(count) == IF count >= 5 THEN One ELSE Rat(count, 5)

\* C6: the composite impression score is 0.4 * min(a/5, 1) + 0.6 * min(s/5, 1)
\* for the authority count a and the statistics count s of the same record,
\* lies in [0, 1], and is not changed by citation or expert-language matches.
C6_Impression ==
    Done("calculate_metrics") /\ result.raised = "none" =>
        LET a == result.value.authority_analysis.authority_score
            s == result.value.statistics_analysis.statistics_score
            score == result.value.subjective_impression_score
        IN  /\ REq(score, RAdd(RMul(Rat(4, 10), SaturatedFifth(a)),
                               RMul(Rat(6, 10), SaturatedFifth(s))))
            /\ InUnit(score)
            /\ \A text \in AnalysisTexts :
                call.response_text = text \o RespCitation =>
                    REq(score, calculate_subjective_impression(GEOMetrics(DefaultLambda), text))

\* a record with two or more authority matches, a statistics count in 1..4
\* and a response that ends in a citation and an expert-language phrase
C6_Witness ==
    /\ Done("calculate_metrics") /\ result.raised = "none"
    /\ result.value.authority_analysis.authority_score >= 2
    /\ result.value.statistics_analysis.statistics_score \in 1..4
    /\ \E text \in AnalysisTexts : call.response_text = text \o RespCitation

\* C7: calculate_metrics is deterministic and leaves the engine unchanged:
\* after any earlier calls on the same instances it returns what a freshly
\* constructed engine with the same lambda_decay returns, and no operation
\* modifies authority_patterns, statistic_patterns, geo_patterns or
\* lambda_decay.
C7_DeterministicAndReadOnly ==
    /\ [](Done("calculate_metrics") =>
            result = calculate_metrics(GEOMetrics(geo.lambda_decay),
                                       call.source_text, call.response_text))
    /\ [][geo' = geo /\ seo' = seo]_vars

\* calculate_metrics has returned a record with authority and statistics
\* matches on an engine that served a call before
C7_Witness ==
    /\ Done("calculate_metrics") /\ result.raised = "none"
    /\ served >= 1
    /\ result.value.authority_analysis.authority_score > 0
    /\ result.value.statistics_analysis.statistics_score > 0

\* what the call of a frame returns when it runs alone on the instances
Alone(f) ==
    IF f.op = "calculate_metrics"
    THEN calculate_metrics(geo, f.source_text, f.response_text)
    ELSE Returned(analyze_geo_patterns(seo, f.text))

\* C8: analysis calls that run concurrently on the same engine instance, in
\* any interleaving of their statements, each return what the call returns
\* when it runs alone.
C8_ConcurrentCallsIndependent ==
    \A t \in DOMAIN threads :
        threads[t].pc = "done" => threads[t].result = Alone(threads[t].frame)

\* two calls of calculate_metrics with different arguments that overlapped
\* have both returned their records
C8_Witness ==
    \E t, u \in DOMAIN threads :
        /\ t # u
        /\ threads[t].pc = "done" /\ threads[u].pc = "done"
        /\ threads[t].overlapped /\ threads[u].overlapped
        /\ threads[t].frame.op = "calculate_metrics"
        /\ threads[u].frame.op = "calculate_metrics"
        /\ threads[t].frame.source_text # threads[u].frame.source_text
        /\ threads[t].result.raised = "none" /\ threads[u].result.raised = "none"
        /\ threads[t].result.value.source_positions # <<>>
        /\ threads[u].result.value.source_positions # <<>>

\* the rule table in evaluation order, by the element each rule reports
RuleOrder == <<"title", "description", "h1", "length", "authority", "statistics">>
RuleIndex(element) == CHOOSE i \in 1..Len(RuleOrder) : RuleOrder[i] = element

\* an optional key of a dict
Opt(dict, key) == IF key \in DOMAIN dict THEN Present(dict[key]) ELSE Missing

\* the condition under which the rule of an element reports, on the input of
\* that rule alone
Triggers(element, a) ==
    CASE element = "title" ->
            LET title == Opt(a.meta_tags, "title")
            IN  ~title.present \/ Len(title.value) < 30
      [] element = "description" ->
            LET description == Opt(a.meta_tags, "description")
            IN  ~description.present \/ Len(description.value) < 120
      [] element = "h1" ->
            LET h1 == Opt(a.heading_structure, "h1")
            IN  ~h1.present \/ Len(h1.value) # 1
      [] element = "length" -> RLt(a.content_quality.length_score, Rat(1, 2))
      [] element = "authority" -> RLt(a.geo_patterns.authority.score, Rat(3, 10))
      [] element = "statistics" -> RLt(a.geo_patterns.statistics.score, Rat(3, 10))

\* the items of a list that report an element
ItemsOf(recommendations, element) ==
    {i \in 1..Len(recommendations) : recommendations[i].element = element}
Has(recommendations, element) == ItemsOf(recommendations, element) # {}

\* C9: the recommendations come in the fixed rule order (title, description,
\* h1, length, authority, statistics); every rule is evaluated whatever the
\* earlier rules did, a rule that matches appends exactly one item and a rule
\* that does not appends none, so the list is a subsequence of the rule table
\* without duplicates.
C9_RuleOrder ==
    Done("generate_seo_recommendations") =>
        LET a == call.analysis_results
            recommendations == result.value
        IN  /\ \A i \in 1..Len(recommendations) :
                   recommendations[i].element \in {RuleOrder[k] : k \in 1..Len(RuleOrder)}
            /\ \A k \in 1..Len(RuleOrder) :
                   Cardinality(ItemsOf(recommendations, RuleOrder[k])) =
                       IF Triggers(RuleOrder[k], a) THEN 1 ELSE 0
            /\ \A i, j \in 1..Len(recommendations) :
                   i < j => RuleIndex(recommendations[i].element)
                                < RuleIndex(recommendations[j].element)

\* the title rule, the length rule and the statistics rule matched; the three
\* rules between and after them did not
C9_Witness ==
    /\ Done("generate_seo_recommendations")
    /\ result.value = <<TitleItem, LengthItem, StatisticsItem>>

\* the analysis records that differ from a in the input of one rule
Varied(a, element) ==
    CASE element = "title" ->
            {[a EXCEPT !.meta_tags = meta_tags_of(title, Opt(@, "description"))] :
                title \in TitleChoices}
      [] element = "description" ->
            {[a EXCEPT !.meta_tags = meta_tags_of(Opt(@, "title"), description)] :
                description \in DescriptionChoices}
      [] element = "h1" ->
            {[a EXCEPT !.heading_structure = heading_structure_of(h1)] :
                h1 \in H1Choices}
      [] element = "length" ->
            {[a EXCEPT !.content_quality.length_score = length_score(words)] :
                words \in WordsChoices}
      [] element = "authority" ->
            {[a EXCEPT !.geo_patterns.authority = g.authority] :
                g \in GeoPatternChoices}
      [] element = "statistics" ->
            {[a EXCEPT !.geo_patterns.statistics = g.statistics] :
                g \in GeoPatternChoices}

\* C10: with the other inputs held fixed, a rule's item is present exactly
\* when that rule's own input is below its threshold (title under 30
\* characters, description under 120, length_score under 0.5, authority and
\* statistics score under 0.3, H1 count other than 1), and changing that
\* input adds or removes no other rule's item.
C10_Monotonic ==
    Done("generate_seo_recommendations") =>
        \A k \in 1..Len(RuleOrder) :
            \A b \in Varied(call.analysis_results, RuleOrder[k]) :
                LET varied == generate_seo_recommendations(b)
                IN  /\ Has(varied, RuleOrder[k]) <=> Triggers(RuleOrder[k], b)
                    /\ \A j \in 1..Len(RuleOrder) :
                           j # k => (Has(varied, RuleOrder[j])
                                        <=> Has(result.value, RuleOrder[j]))

\* a record whose title and authority score are above their thresholds and
\* whose statistics score is below: no title item and no authority item, a
\* statistics item, and a title of 29 characters adds the title item
C10_Witness ==
    /\ Done("generate_seo_recommendations")
    /\ ~Has(result.value, "title")
    /\ ~Has(result.value, "authority")
    /\ Has(result.value, "statistics")
    /\ \E b \in Varied(call.analysis_results, "title") :
           Has(generate_seo_recommendations(b), "title")

\* C11 (as claimed): the rule table has a readability rule and a
\* topic-coherence rule: a supplied readability composite below 50 appends a
\* medium-severity item and a supplied topic coherence below 0.5 appends a
\* medium-severity item, both after the statistics rule.
C11_ReadabilityAndCoherenceRules ==
    Done("generate_seo_recommendations")
        /\ "content_analysis" \in DOMAIN call.analysis_results =>
        LET supplied == call.analysis_results.content_analysis
            recommendations == result.value
            Late(i) == \A j \in ItemsOf(recommendations, "statistics") : j < i
        IN  /\ supplied.readability < 50 =>
                \E i \in 1..Len(recommendations) :
                    /\ recommendations[i].severity = "medium"
                    /\ recommendations[i].element \notin
                           {RuleOrder[k] : k \in 1..Len(RuleOrder)}
                    /\ Late(i)
            /\ RLt(supplied.topic_coherence, Rat(1, 2)) =>
                \E i \in 1..Len(recommendations) :
                    /\ recommendations[i].severity = "medium"
                    /\ recommendations[i].element \notin
                           {RuleOrder[k] : k \in 1..Len(RuleOrder)}
                    /\ Late(i)

\* C12: structural gaps never fault generate_seo_recommendations: when the
\* meta tags lack a title or a description, or the heading structure lacks an
\* h1 entry or holds no or several H1 headings, the call returns normally and
\* its list holds exactly one item for each gap, the high-severity item of
\* that rule.
C12_GapsAreRecommendations ==
    Done("generate_seo_recommendations") =>
        LET a == call.analysis_results
            recommendations == result.value
            Reported(element, item) ==
                /\ Cardinality(ItemsOf(recommendations, element)) = 1
                /\ \A i \in ItemsOf(recommendations, element) :
                       recommendations[i] = item /\ item.severity = "high"
        IN  /\ result.raised = "none"
            /\ "title" \notin DOMAIN a.meta_tags => Reported("title", TitleItem)
            /\ "description" \notin DOMAIN a.meta_tags =>
                   Reported("description", DescriptionItem)
            /\ ("h1" \notin DOMAIN a.heading_structure
                    \/ Len(Opt(a.heading_structure, "h1").value) # 1) =>
                   Reported("h1", H1Item)

\* a record without title, description and h1 entry and with text enough:
\* the three high-severity items lead the list and no length item follows
C12_Witness ==
    /\ Done("generate_seo_recommendations")
    /\ DOMAIN call.analysis_results.meta_tags = {}
    /\ DOMAIN call.analysis_results.heading_structure = {}
    /\ Len(result.value) >= 3
    /\ SubSeq(result.value, 1, 3) = <<TitleItem, DescriptionItem, H1Item>>
    /\ ~Has(result.value, "length")

\* C13 (as claimed): an engine with lambda_decay <= 0 fails to initialize,
\* so every engine that serves a call has a positive lambda_decay and no
\* call of position_adjusted_metric or calculate_metrics raises.
C13_NonPositiveLambdaRejected ==
    Done("position_adjusted_metric") \/ Done("calculate_metrics") =>
        /\ geo.lambda_decay > 0
        /\ result.raised = "none"

\* a text without a non-empty sentence: whitespace and terminals only
NoSentence(text) == \A i \in 1..Len(text) : text[i] \in Whitespace \cup Terminals

\* C14 (as claimed): for a text without a non-empty sentence the average
\* sentence length counts as 0, so readability_score is 0 and overall_score
\* is the arithmetic mean of length_score, readability_score and
\* structure_score, all four numbers within [0, 1].
C14_ZeroSentenceGuard ==
    Done("calculate_content_quality_score") /\ NoSentence(call.text) =>
        LET scores == result.value
        IN  /\ result.raised = "none"
            /\ REq(scores.readability_score, Zero)
            /\ REq(RMul(scores.overall_score, Rat(3, 1)),
                   RAdd(scores.length_score, scores.structure_score))
            /\ InUnit(scores.length_score) /\ InUnit(scores.readability_score)
            /\ InUnit(scores.structure_score) /\ InUnit(scores.overall_score)

\* C15: find_source_positions returns one record for each source sentence
\* that some response sentence contains (case-insensitively) and none for
\* the others; the records come in source order, each with the word count of
\* its source sentence and the position of a response sentence that contains
\* it; two source sentences may share a position.
C15_OneRecordPerAttributedSentence ==
    Done("calculate_metrics") /\ result.raised = "none" =>
        LET source_sentences == split_into_sentences(call.source_text)
            response_sentences == split_into_sentences(call.response_text)
            contained == {k \in 1..Len(source_sentences) :
                            Containing(source_sentences[k], response_sentences) # {}}
            attributed == Attributed(source_sentences, response_sentences)
            positions == result.value.source_positions
        IN  /\ Len(positions) = Cardinality(contained)
            /\ \A k \in 1..Len(positions) :
                /\ positions[k][1] = Len(str_split(attributed[k]))
                /\ positions[k][2] \in Containing(attributed[k], response_sentences)

\* two source sentences of different lengths have been attributed to the
\* same response sentence, which is longer than both
C15_Witness ==
    /\ Done("calculate_metrics") /\ result.raised = "none"
    /\ LET positions == result.value.source_positions
           response_sentences == split_into_sentences(call.response_text)
       IN  /\ Len(positions) = 2
           /\ positions[1][2] = positions[2][2]
           /\ positions[1][1] # positions[2][1]
           /\ Len(str_split(response_sentences[positions[1][2]])) > positions[1][1]

\* the matches of the first k rules of a category in a text: those of each
\* rule, in the order of its scan, after those of the rules before it
RECURSIVE MatchesOfRules(_, _, _, _)
MatchesOfRules(patterns, text, k, icase) ==
    IF k = 0 THEN <<>>
    ELSE MatchesOfRules(patterns, text, k - 1, icase)
         \o re_finditer(patterns[k], text, icase)

\* count and matches hold every match of every rule
HoldsEveryMatch(count, matches, patterns, text, icase) ==
    /\ count = Len(matches)
    /\ matches = MatchesOfRules(patterns, text, Len(patterns), icase)

\* C16: in both analyzers the count of a category equals the length of its
\* matches list, which holds every match occurrence of every rule, repeated
\* strings and text matched by several rules included, ordered by rule and
\* then by position in the text; a category's result depends on its own
\* rules only.
C16_CountIsEveryMatch ==
    /\ Done("analyze_geo_patterns") =>
        \A pattern_type \in DOMAIN seo.geo_patterns :
            HoldsEveryMatch(result.value[pattern_type].count,
                            result.value[pattern_type].matches,
                            seo.geo_patterns[pattern_type], call.text, TRUE)
    /\ Done("calculate_metrics") /\ result.raised = "none" =>
        /\ HoldsEveryMatch(result.value.authority_analysis.authority_score,
                           result.value.authority_analysis.found_patterns,
                           geo.authority_patterns, str_lower(call.response_text),
                           FALSE)
        /\ HoldsEveryMatch(result.value.statistics_analysis.statistics_score,
                           result.value.statistics_analysis.found_statistics,
                           geo.statistic_patterns, call.response_text, FALSE)

\* a text with the same figures twice: six statistics matches, each string
\* twice, the two matches of a rule side by side, and no authority match
C16_Witness ==
    /\ Done("analyze_geo_patterns")
    /\ result.value.statistics.count = 6
    /\ result.value.statistics.matches[1] = result.value.statistics.matches[2]
    /\ result.value.statistics.matches[3] = result.value.statistics.matches[4]
    /\ result.value.statistics.matches[1] # result.value.statistics.matches[3]
    /\ result.value.authority.count = 0

\* C17 (as claimed): both analyzers match the rules of the linguistic
\* categories (authority, citations, expert language) in any letter casing
\* and the rules of the statistics category case-sensitively, so a unit word
\* in another casing is not a statistics match.
C17_CasePolicy ==
    /\ Done("analyze_geo_patterns") =>
        \A pattern_type \in DOMAIN seo.geo_patterns :
            result.value[pattern_type].count =
                Len(MatchesOfRules(seo.geo_patterns[pattern_type], call.text,
                                   Len(seo.geo_patterns[pattern_type]),
                                   pattern_type # "statistics"))
    /\ Done("calculate_metrics") /\ result.raised = "none" =>
        /\ result.value.authority_analysis.authority_score =
               Len(MatchesOfRules(geo.authority_patterns, call.response_text,
                                  Len(geo.authority_patterns), TRUE))
        /\ result.value.statistics_analysis.statistics_score =
               Len(MatchesOfRules(geo.statistic_patterns, call.response_text,
                                  Len(geo.statistic_patterns), FALSE))

\* the word counts of the records, summed
RECURSIVE SumWords(_, _)
SumWords(sentences, k) ==
    IF k > Len(sentences) THEN 0 ELSE sentences[k][1] + SumWords(sentences, k + 1)

\* the positions the weight is followed over
Positions == 1..4

\* C18: with lambda_decay > 0 the decay weight exp(-position / lambda) lies
\* strictly between 0 and 1 for every position >= 1 and strictly decreases
\* with the position; so, with total_words > 0, position_adjusted_metric is
\* not negative, is at most the records' summed word counts over
\* total_words, and becomes strictly smaller when a record with a positive
\* word count moves one position later; for [(10, 1)], total 20 and lambda
\* 10 it is 0.4524187 to seven places. (Metrics of one call share the
\* denominator Scale * total_words, so their numerators are compared.)
C18_DecayWeight ==
    Done("position_adjusted_metric") /\ geo.lambda_decay > 0
        /\ call.total_words > 0 =>
        LET sentences == call.sentences
            total_words == call.total_words
            metric == result.value
        IN  /\ \A lambda \in 1..(2 * DefaultLambda), position \in Positions :
                LET weight == DecayWeight(GEOMetrics(lambda), position)
                IN  /\ 0 < weight /\ weight < Scale
                    /\ DecayWeight(GEOMetrics(lambda), position + 1) < weight
            /\ result.raised = "none"
            /\ metric.den = Scale * total_words
            /\ 0 <= metric.num
            /\ metric.num <= SumWords(sentences, 1) * Scale
            /\ \A k \in 1..Len(sentences) :
                sentences[k][1] > 0 =>
                    LET later == [sentences EXCEPT ![k][2] = @ + 1]
                        moved == position_adjusted_metric(geo, later, total_words)
                    IN  /\ moved.value.den = metric.den
                        /\ moved.value.num < metric.num
            /\ (sentences = << <<10, 1>> >> /\ total_words = 20
                    /\ geo.lambda_decay = 10) =>
                   metric.num \div total_words \in 4524186..4524188

\* the case of the repository's test: [(10, 1)], 20 words, lambda 10
C18_Witness ==
    /\ Done("position_adjusted_metric")
    /\ geo.lambda_decay = 10
    /\ call.sentences = << <<10, 1>> >>
    /\ call.total_words = 20
    /\ result.raised = "none"
    /\ result.value.num \div 20 \in 4524186..4524188

C20_StrictThresholds ==
    Done("generate_seo_recommendations") =>
        LET a == call.analysis_results
            recommendations == result.value
            title == Opt(a.meta_tags, "title")
            description == Opt(a.meta_tags, "description")
        IN  /\ \A words \in WordsChoices \cup 495..505 :
                /\ REq(a.content_quality.length_score, length_score(words)) =>
                       (Has(recommendations, "length") <=> words < 500)
                /\ LengthRule([length_score |-> length_score(words)]) <=> words < 500
            /\ Has(recommendations, "authority") <=> a.geo_patterns.authority.count <= 1
            /\ Has(recommendations, "statistics") <=> a.geo_patterns.statistics.count <= 1
            /\ Has(recommendations, "title") <=>
                   (~title.present \/ Len(title.value) <= 29)
            /\ Has(recommendations, "description") <=>
                   (~description.present \/ Len(description.value) <= 119)

\* every input on its boundary: a title of 30 characters, a description of
\* 120, 500 words and two authority matches emit nothing; one statistics
\* match emits the statistics item
C20_Witness ==
    /\ Done("generate_seo_recommendations")
    /\ LET a == call.analysis_results
       IN  /\ "title" \in DOMAIN a.meta_tags /\ Len(a.meta_tags.title) = 30
           /\ "description" \in DOMAIN a.meta_tags /\ Len(a.meta_tags.description) = 120
           /\ REq(a.content_quality.length_score, length_score(500))
           /\ a.geo_patterns.authority.count = 2
           /\ a.geo_patterns.statistics.count = 1
    /\ ~Has(result.value, "title") /\ ~Has(result.value, "description")
    /\ ~Has(result.value, "length") /\ ~Has(result.value, "authority")
    /\ Has(result.value, "statistics")

====
